---- MODULE Spec2Model ----
(***************************************************************************)
(* Statement import of the cost-analysis assistant                         *)
(* (expenses/services/importers.py, expenses/models.py, expenses/forms.py).*)
(*                                                                         *)
(* Text is modelled as TLA+ strings, one character at a time.  TLA+        *)
(* strings are ASCII, so every Cyrillic letter is written as one Latin     *)
(* letter of the same case (a b v g d e z i k l m n o p r s t u f as usual,*)
(* ya -> q, yu -> w, short i -> j, ch -> c, y -> y), the no-break space    *)
(* U+00A0 is written "_" and the typographic minus U+2212 is written "~".  *)
(* So "Summa v rub" is the header cell, "dek" is December, "maq" / "maj"   *)
(* are the two forms of May, "perevod" is a transfer.                      *)
(*                                                                         *)
(* A Decimal is the record [m |-> mantissa, e |-> fractional digits]: its  *)
(* value is m / 10^e, exactly as Python keeps coefficient and exponent.    *)
(***************************************************************************)
EXTENDS Integers, Sequences, FiniteSets, TLC

(***************************************************************************)
(* Bounds of the model.                                                    *)
(***************************************************************************)
\* rows read from the files and forms posted, by all requests together
MaxRows == 2

(***************************************************************************)
(* Characters and strings.                                                 *)
(***************************************************************************)
Char(s, i) == SubSeq(s, i, i)

Rest(s) == SubSeq(s, 2, Len(s))

DigitChars == "0123456789"

UpperChars == "ABCDEFGHIJKLMNOPQRSTUVWXYZ"

LowerChars == "abcdefghijklmnopqrstuvwxyz"

IndexIn(alphabet, c) ==
    IF \E i \in 1..Len(alphabet) : Char(alphabet, i) = c
    THEN CHOOSE i \in 1..Len(alphabet) : Char(alphabet, i) = c
    ELSE 0

IsDigit(c) == IndexIn(DigitChars, c) > 0

IsLetter(c) == IndexIn(UpperChars, c) > 0 \/ IndexIn(LowerChars, c) > 0

\* "\s" of the date pattern and the characters str.strip() and str.split() drop
IsSpace(c) == c \in {" ", "_"}

DigitVal(c) == IndexIn(DigitChars, c) - 1

AllDigits(s) == \A i \in 1..Len(s) : IsDigit(Char(s, i))

RECURSIVE ToNat(_)
ToNat(s) ==
    IF s = "" THEN 0
    ELSE 10 * ToNat(SubSeq(s, 1, Len(s) - 1)) + DigitVal(Char(s, Len(s)))

RECURSIVE Pow10(_)
Pow10(n) == IF n = 0 THEN 1 ELSE 10 * Pow10(n - 1)

RECURSIVE Replace(_, _, _)
Replace(s, old, new) ==
    IF s = "" THEN ""
    ELSE (IF Char(s, 1) = old THEN new ELSE Char(s, 1)) \o Replace(Rest(s), old, new)

LowerChar(c) ==
    IF IndexIn(UpperChars, c) > 0 THEN Char(LowerChars, IndexIn(UpperChars, c)) ELSE c

RECURSIVE Lower(_)
Lower(s) == IF s = "" THEN "" ELSE LowerChar(Char(s, 1)) \o Lower(Rest(s))

RECURSIVE LStrip(_)
LStrip(s) == IF s # "" /\ IsSpace(Char(s, 1)) THEN LStrip(Rest(s)) ELSE s

RECURSIVE RStrip(_)
RStrip(s) ==
    IF s # "" /\ IsSpace(Char(s, Len(s))) THEN RStrip(SubSeq(s, 1, Len(s) - 1)) ELSE s

Strip(s) == RStrip(LStrip(s))

\* Python's "kw in s"
Contains(s, kw) ==
    \E i \in 1..(Len(s) - Len(kw) + 1) : SubSeq(s, i, i + Len(kw) - 1) = kw

StartsWith(s, prefix) ==
    Len(prefix) <= Len(s) /\ SubSeq(s, 1, Len(prefix)) = prefix

\* position of the first occurrence of the character c in s, 0 when there is none
FirstIndex(s, c) ==
    IF \E i \in 1..Len(s) : Char(s, i) = c
    THEN CHOOSE i \in 1..Len(s) :
            Char(s, i) = c /\ \A j \in 1..(i - 1) : Char(s, j) # c
    ELSE 0

(***************************************************************************)
(* Decimal arithmetic (decimal.Decimal).                                   *)
(***************************************************************************)
Dec(m, e) == [m |-> m, e |-> e]

DecZero == Dec(0, 0)

MaxOf(a, b) == IF a >= b THEN a ELSE b

Abs(n) == IF n < 0 THEN -n ELSE n

DecNeg(a) == Dec(-a.m, a.e)

DecAbs(a) == Dec(Abs(a.m), a.e)

DecAdd(a, b) ==
    LET e == MaxOf(a.e, b.e)
    IN  Dec(a.m * Pow10(e - a.e) + b.m * Pow10(e - b.e), e)

\* numeric comparison: Decimal("1.5") == Decimal("1.50")
DecEq(a, b) ==
    LET e == MaxOf(a.e, b.e)
    IN  a.m * Pow10(e - a.e) = b.m * Pow10(e - b.e)

DecIsZero(a) == a.m = 0

DecIsNeg(a) == a.m < 0

\* Decimal(text): [sign] digits [. digits] or [sign] . digits; anything else
\* raises decimal.InvalidOperation (ok = FALSE)
ParseDecimal(text) ==
    LET signed == text # "" /\ Char(text, 1) \in {"-", "+"}
        neg == text # "" /\ Char(text, 1) = "-"
        body == IF signed THEN Rest(text) ELSE text
        dot == FirstIndex(body, ".")
        ip == IF dot = 0 THEN body ELSE SubSeq(body, 1, dot - 1)
        fp == IF dot = 0 THEN "" ELSE SubSeq(body, dot + 1, Len(body))
        ok == AllDigits(ip) /\ AllDigits(fp) /\ Len(ip) + Len(fp) > 0
        mag == ToNat(ip \o fp)
    IN  IF ok
        THEN [ok |-> TRUE, val |-> Dec(IF neg THEN -mag ELSE mag, Len(fp))]
        ELSE [ok |-> FALSE, val |-> DecZero]

(***************************************************************************)
(* Cell values: what csv.DictReader and openpyxl hand to the parsers.      *)
(* k = "none" is None, "str" a text, "num" an int or float given by its    *)
(* str() form, "date" a date or datetime object.                           *)
(***************************************************************************)
NoDate == [y |-> 0, mo |-> 0, d |-> 0]

None == [k |-> "none", s |-> "", dt |-> NoDate]

Str(s) == [k |-> "str", s |-> s, dt |-> NoDate]

Num(repr) == [k |-> "num", s |-> repr, dt |-> NoDate]

DateObj(y, mo, d) == [k |-> "date", s |-> "", dt |-> [y |-> y, mo |-> mo, d |-> d]]

\* str(c) of a cell that is not None
PyStr(c) ==
    IF c.k = "date" THEN "date" ELSE c.s

\* Python truthiness of a cell read from a csv row (None or a text)
Truthy(c) == c.k # "none" /\ c.s # ""

\* "c or default" for a csv field
OrElse(c, default) == IF Truthy(c) THEN c.s ELSE default

(***************************************************************************)
(* _normalize_amount                                                       *)
(***************************************************************************)
NormalizeTextKeepingNbsp(s) ==
    Replace(Replace(Replace(Replace(s, " ", ""), "+", ""), "~", "-"), ",", ".")

NormalizeText(s) ==
    Replace(Replace(Replace(Replace(Replace(s, "_", ""), " ", ""), "+", ""), "~", "-"),
            ",", ".")

_normalize_amount(raw) ==
    IF raw.k = "none" THEN [ok |-> TRUE, val |-> DecZero]
    ELSE IF raw.k = "num" THEN ParseDecimal(raw.s)
    ELSE LET text == NormalizeText(PyStr(raw))
         IN  IF text = "" THEN [ok |-> TRUE, val |-> DecZero]
             ELSE ParseDecimal(text)

(***************************************************************************)
(* Calendar dates (datetime.date).                                         *)
(***************************************************************************)
MkDate(y, mo, d) == [y |-> y, mo |-> mo, d |-> d]

IsLeap(y) == (y % 4 = 0 /\ y % 100 # 0) \/ y % 400 = 0

DaysInMonth(y, mo) ==
    IF mo = 2 THEN (IF IsLeap(y) THEN 29 ELSE 28)
    ELSE IF mo \in {4, 6, 9, 11} THEN 30 ELSE 31

ValidDateUpTo31(y, mo, d) ==
    /\ y >= 1 /\ y <= 9999
    /\ mo >= 1 /\ mo <= 12
    /\ d >= 1 /\ d <= 31

\* date(y, mo, d) raises ValueError unless this holds
ValidDate(y, mo, d) ==
    /\ y >= 1 /\ y <= 9999
    /\ mo >= 1 /\ mo <= 12
    /\ d >= 1 /\ d <= DaysInMonth(y, mo)

DateFail == [ok |-> FALSE, dt |-> NoDate]

DateOk(y, mo, d) == [ok |-> TRUE, dt |-> MkDate(y, mo, d)]

\* datetime.strptime(s, "%d.%m.%Y").date(); ok = FALSE is ValueError
Strptime(s) ==
    LET d1 == FirstIndex(s, ".")
        rest == IF d1 = 0 THEN "" ELSE SubSeq(s, d1 + 1, Len(s))
        d2 == FirstIndex(rest, ".")
        dd == IF d1 = 0 THEN "" ELSE SubSeq(s, 1, d1 - 1)
        mm == IF d2 = 0 THEN "" ELSE SubSeq(rest, 1, d2 - 1)
        yy == IF d2 = 0 THEN "" ELSE SubSeq(rest, d2 + 1, Len(rest))
        shape == /\ d1 > 0 /\ d2 > 0
                 /\ Len(dd) \in {1, 2} /\ AllDigits(dd)
                 /\ Len(mm) \in {1, 2} /\ AllDigits(mm)
                 /\ Len(yy) = 4 /\ AllDigits(yy)
    IN  IF shape /\ ValidDate(ToNat(yy), ToNat(mm), ToNat(dd))
        THEN DateOk(ToNat(yy), ToNat(mm), ToNat(dd))
        ELSE DateFail

\* s.split(): the first whitespace-separated word, "" when there is none
FirstWord(s) ==
    LET t == LStrip(s)
        ends == {i \in 1..Len(t) : IsSpace(Char(t, i))}
    IN  IF ends = {} THEN t
        ELSE SubSeq(t, 1, (CHOOSE i \in ends : \A j \in ends : i <= j) - 1)

\* s.split(",")[0]
BeforeComma(s) ==
    IF FirstIndex(s, ",") = 0 THEN s ELSE SubSeq(s, 1, FirstIndex(s, ",") - 1)

MONTHS_RU ==
    << <<"qnv", 1>>, <<"fev", 2>>, <<"mar", 3>>, <<"apr", 4>>, <<"maq", 5>>,
       <<"maj", 5>>, <<"iwn", 6>>, <<"iwl", 7>>, <<"avg", 8>>, <<"sen", 9>>,
       <<"sent", 9>>, <<"okt", 10>>, <<"noq", 11>>, <<"dek", 12>> >>

\* the first key of MONTHS_RU that mon_text starts with; 0 when there is none
MonthNum(mon_text) ==
    LET hits == {i \in 1..Len(MONTHS_RU) : StartsWith(mon_text, MONTHS_RU[i][1])}
    IN  IF hits = {} THEN 0
        ELSE MONTHS_RU[CHOOSE i \in hits : \A j \in hits : i <= j][2]

\* length of the longest run of characters satisfying Cls that starts at s[i]
RECURSIVE RunLen(_, _, _)
RunLen(s, i, cls) ==
    IF i <= Len(s) /\ ((cls = "d" /\ IsDigit(Char(s, i)))
                        \/ (cls = "s" /\ IsSpace(Char(s, i)))
                        \/ (cls = "l" /\ IsLetter(Char(s, i))))
    THEN 1 + RunLen(s, i + 1, cls)
    ELSE 0

\* a match of  (\d{1,2})\s+([letters]{3,})\.?,?\s+(\d{4})  that starts at s[i]
DateMatchAt(s, i) ==
    LET nd == IF RunLen(s, i, "d") >= 2 /\ RunLen(s, i + 2, "s") >= 1 THEN 2
              ELSE IF RunLen(s, i, "d") >= 1 /\ RunLen(s, i + 1, "s") >= 1 THEN 1
              ELSE 0
        p1 == i + nd
        p2 == p1 + RunLen(s, p1, "s")
        nl == RunLen(s, p2, "l")
        p3 == p2 + nl
        p4 == IF p3 <= Len(s) /\ Char(s, p3) = "." THEN p3 + 1 ELSE p3
        p5 == IF p4 <= Len(s) /\ Char(s, p4) = "," THEN p4 + 1 ELSE p4
        p6 == p5 + RunLen(s, p5, "s")
        ok == nd > 0 /\ nl >= 3 /\ p6 > p5 /\ RunLen(s, p6, "d") >= 4
    IN  [ok |-> ok,
         day |-> IF ok THEN ToNat(SubSeq(s, i, i + nd - 1)) ELSE 0,
         mon |-> IF ok THEN SubSeq(s, p2, p3 - 1) ELSE "",
         year |-> IF ok THEN ToNat(SubSeq(s, p6, p6 + 3)) ELSE 0]

\* _parse_sber_date; ok = FALSE is the result None
_parse_sber_date(raw) ==
    IF raw.k = "date" THEN [ok |-> TRUE, dt |-> raw.dt]
    ELSE IF raw.k = "none" THEN DateFail
    ELSE LET s == Strip(PyStr(raw))
             main_part == Strip(BeforeComma(s))
             starts == {i \in 1..Len(s) : DateMatchAt(s, i).ok}
         IN  IF Strptime(main_part).ok THEN Strptime(main_part)
             ELSE IF starts = {} THEN DateFail
             ELSE LET m == DateMatchAt(s, CHOOSE i \in starts : \A j \in starts : i <= j)
                      month_num == MonthNum(Lower(m.mon))
                  IN  IF month_num # 0 /\ ValidDate(m.year, month_num, m.day)
                      THEN DateOk(m.year, month_num, m.day)
                      ELSE DateFail

(***************************************************************************)
(* Storage: the tables behind ExpenseCategory and Expense.                 *)
(***************************************************************************)
\* Expense.amount = DecimalField(max_digits=10, decimal_places=2)
DECIMAL_PLACES == 2

\* Expense.description = CharField(max_length=255), cut by description[:255]
MAX_DESCRIPTION == 255

\* what the amount column keeps of a Decimal: DECIMAL_PLACES fractional digits,
\* the rest rounded half to even (decimal's default context)
StoredAmount(a) ==
    IF a.e <= DECIMAL_PLACES
    THEN Dec(a.m * Pow10(DECIMAL_PLACES - a.e), DECIMAL_PLACES)
    ELSE LET q == Pow10(a.e - DECIMAL_PLACES)
             mag == Abs(a.m)
             base == mag \div q
             rem == mag % q
             up == 2 * rem > q \/ (2 * rem = q /\ base % 2 = 1)
             r == IF up THEN base + 1 ELSE base
         IN  Dec(IF a.m < 0 THEN -r ELSE r, DECIMAL_PLACES)

Truncate(s, n) == IF Len(s) <= n THEN s ELSE SubSeq(s, 1, n)

\* ids of the categories of (user, name)
CategoryIds(cats, u, name) ==
    {i \in 1..Len(cats) : cats[i].user = u /\ cats[i].name = name}

\* the table of categories, were unique_together not declared
NotUniqueTogether(cats, u, name) == TRUE

\* ExpenseCategory.Meta.unique_together = ("user", "name"): the insert of a
\* second row with the same pair is refused (IntegrityError)
UniqueTogether(cats, u, name) == CategoryIds(cats, u, name) = {}

\* ExpenseCategory.objects.get(user=u, name=name), when a row exists
GetCategory(cats, u, name) ==
    CHOOSE i \in CategoryIds(cats, u, name) :
        \A j \in CategoryIds(cats, u, name) : i <= j

(***************************************************************************)
(* import_tbank_csv: one row of the csv.DictReader.                        *)
(* A row is a record of cells: status ("Status"), amount_op ("Summa        *)
(* operacii"), amount_pay ("Summa platezha"), currency, date, category,    *)
(* description.  The result says what the loop body does with the row:     *)
(* do = "skip" (continue), "raise" (an exception leaves the function) or   *)
(* "persist" (the row reaches get_or_create and Expense.objects.create).   *)
(***************************************************************************)
NoFields ==
    [amount |-> DecZero, currency |-> "", date |-> NoDate,
     category_name |-> "", description |-> ""]

Skip(why) == [do |-> "skip", why |-> why, f |-> NoFields]

Raise(why) == [do |-> "raise", why |-> why, f |-> NoFields]

Persist(amount, currency, date, category_name, description) ==
    [do |-> "persist", why |-> "persist",
     f |-> [amount |-> amount, currency |-> currency, date |-> date,
            category_name |-> category_name, description |-> description]]

TbankAmountRaw(row) == OrElse(row.amount_op, OrElse(row.amount_pay, ""))

TbankRow(row) ==
    LET amount_raw == TbankAmountRaw(row)
        amount == _normalize_amount(Str(amount_raw))
        currency == Strip(OrElse(row.currency, "RUB"))
        words == OrElse(row.date, "")
        date_str == FirstWord(words)
        category_name == Strip(OrElse(row.category, "Uncategorized"))
        description == Strip(OrElse(row.description, ""))
        short == Truncate(description, MAX_DESCRIPTION)
    IN  IF row.status # Str("OK") THEN Skip("status")
        ELSE IF amount_raw = "" THEN Skip("empty")
        ELSE IF ~amount.ok THEN Raise("InvalidOperation")
        ELSE IF ~DecIsNeg(amount.val) THEN Skip("nonnegative")
        ELSE IF Strip(words) = "" THEN Raise("IndexError")
        ELSE IF ~Strptime(date_str).ok THEN Skip("date")
        ELSE Persist(DecNeg(amount.val), currency, Strptime(date_str).dt,
                     category_name, IF short # "" THEN short ELSE category_name)

(***************************************************************************)
(* import_sber_xlsx: the header row and one data row of the worksheet.     *)
(* Column indexes are 1-based here and 0 stands for find_idx's -1.         *)
(***************************************************************************)
\* headers = [(str(c).strip() if c is not None else "") for c in first_row]
Headers(first_row) ==
    [i \in 1..Len(first_row) |->
        IF first_row[i].k = "none" THEN "" ELSE Strip(PyStr(first_row[i]))]

find_idx(headers, keywords) ==
    LET hits == {i \in 1..Len(headers) :
                    \E kw \in keywords : Contains(Lower(headers[i]), kw)}
    IN  IF hits = {} THEN 0 ELSE CHOOSE i \in hits : \A j \in hits : i <= j

idx_date(h) == find_idx(h, {"data"})

idx_category(h) == find_idx(h, {"kategor"})

idx_amount(h) == find_idx(h, {"summa"})

idx_amount_rub(h) == find_idx(h, {"summa v rub"})

idx_currency(h) == find_idx(h, {"valwt"})

idx_description(h) == find_idx(h, {"opisan"})

\* the check of the mandatory columns, were it to ask for both to be missing
HeaderRejectedIfBothMissing(h) == idx_date(h) = 0 /\ idx_amount(h) = 0

\* if idx_date < 0 or idx_amount < 0: return 0, Decimal("0")
HeaderRejected(h) == idx_date(h) = 0 \/ idx_amount(h) = 0

ExclusionKeywords == {"perevod", "popoln", "zacislen"}

\* the exclusion test, were the list to lack its first keyword
IsExcludedWithoutTransfers(category_name_lower) ==
    \E bad \in ExclusionKeywords \ {"perevod"} : Contains(category_name_lower, bad)

\* any(bad in category_name_lower for bad in [...])
IsExcluded(category_name_lower) ==
    \E bad \in ExclusionKeywords : Contains(category_name_lower, bad)

\* (str(raw) if raw is not None else "").strip() or default, for an optional column
TextOr(row, idx, default) ==
    LET raw == IF idx > 0 THEN row[idx] ELSE Str("")
        text == Strip(IF raw.k = "none" THEN "" ELSE PyStr(raw))
    IN  IF text # "" THEN text ELSE default

SberRow(h, row) ==
    LET amount == _normalize_amount(row[idx_amount(h)])
        magnitude == DecAbs(amount.val)
        date_value == _parse_sber_date(row[idx_date(h)])
        category_name == TextOr(row, idx_category(h), "Uncategorized")
        description == TextOr(row, idx_description(h), category_name)
        currency == TextOr(row, idx_currency(h), "RUB")
        use_rub == /\ currency # "RUB"
                   /\ idx_amount_rub(h) > 0
                   /\ row[idx_amount_rub(h)].k # "none"
        amount_rub == IF use_rub THEN _normalize_amount(row[idx_amount_rub(h)])
                      ELSE [ok |-> TRUE, val |-> DecZero]
        short == Truncate(description, MAX_DESCRIPTION)
    IN  IF \A i \in 1..Len(row) : row[i].k = "none" THEN Skip("blank")
        ELSE IF ~amount.ok THEN Raise("InvalidOperation")
        ELSE IF DecIsZero(amount.val) THEN Skip("zero")
        ELSE IF ~date_value.ok THEN Skip("date")
        ELSE IF IsExcluded(Lower(category_name)) THEN Skip("excluded")
        ELSE IF ~amount_rub.ok THEN Raise("InvalidOperation")
        ELSE IF use_rub /\ ~DecIsZero(amount_rub.val)
             THEN Persist(DecAbs(amount_rub.val), "RUB", date_value.dt,
                          category_name, short)
        ELSE Persist(magnitude, currency, date_value.dt, category_name, short)

(***************************************************************************)
(* Inputs: the users, the rows of a T-Bank export, the header rows and the *)
(* data rows of a Sberbank worksheet.                                      *)
(***************************************************************************)
Procs == {1, 2}

Users == {"alice", "bob"}

TbankAmounts ==
    {[op |-> Str("-150,50"), pay |-> None], [op |-> Str("~0,004"), pay |-> None],
     [op |-> Str("+99"), pay |-> None], [op |-> Str("0"), pay |-> None],
     [op |-> Str("n/d"), pay |-> None], [op |-> Str(" "), pay |-> None],
     [op |-> Str(""), pay |-> Str("-20")], [op |-> None, pay |-> None]}

TbankTexts ==
    {[currency |-> Str(""), category |-> Str("Eda"), description |-> Str("Magazin")],
     [currency |-> Str("USD"), category |-> Str("Perevody"), description |-> Str(" ")],
     [currency |-> None, category |-> None, description |-> None]}

TbankRows ==
    {[status |-> st, amount_op |-> a.op, amount_pay |-> a.pay, currency |-> t.currency,
      date |-> dt, category |-> t.category, description |-> t.description] :
        st \in {Str("OK"), Str("FAILED")}, a \in TbankAmounts,
        dt \in {Str("05.12.2025 12:00"), Str("31.11.2025"), Str("")},
        t \in TbankTexts}

\* first rows of a worksheet: the one of the docstring, one with the converted
\* amount before the amount, and ones that lack the date or the amount column
FirstRows ==
    {<<Str("Nomer"), Str("Data"), Str("Kategoriq"), Str("Summa"), Str("Valwta"),
       Str("Summa v rub"), Str("Opisanie")>>,
     <<Str("Data"), Str("Summa v rub"), Str("Summa"), Str("Valwta")>>,
     <<Str(" DATA operacii "), Str("Summa")>>,
     <<Str("Kategoriq"), Str("Summa"), Str("Opisanie")>>,
     <<Str("Data"), Str("Kategoriq"), Str("Valwta")>>,
     <<Str("Nomer"), None>>}

SberTexts ==
    {[category |-> Str("Eda"), description |-> Str("Magazin")],
     [category |-> Str("Perevod na kartu"), description |-> Str("Magazin")],
     [category |-> None, description |-> None]}

SberCells ==
    {[date |-> dt, category |-> t.category, amount |-> a, currency |-> cu,
      amount_rub |-> ar, description |-> t.description] :
        dt \in {Str("01 dek. 2025, 10:00"), Str("31.11.2025"), None},
        t \in SberTexts,
        a \in {Str("-1_234,56"), Num("0.004"), Str("n/d"), None},
        cu \in {Str("USD"), None},
        ar \in {Num("-90.0"), Str(""), Str("n/d"), None}}

\* the cell of a data row under the header cell with the given text
CellUnder(header, c) ==
    IF header = "Data" \/ header = "DATA operacii" THEN c.date
    ELSE IF header = "Kategoriq" THEN c.category
    ELSE IF header = "Summa" THEN c.amount
    ELSE IF header = "Valwta" THEN c.currency
    ELSE IF header = "Summa v rub" THEN c.amount_rub
    ELSE IF header = "Opisanie" THEN c.description
    ELSE None

SberRows(h) == {[i \in 1..Len(h) |-> CellUnder(h[i], c)] : c \in SberCells}

\* the rows above, each with what the loop body makes of it
TbankFile == {[row |-> row, o |-> TbankRow(row)] : row \in TbankRows}

HeaderRows == {Headers(first_row) : first_row \in FirstRows}

SberFile ==
    [h \in {g \in HeaderRows : idx_date(g) > 0 /\ idx_amount(g) > 0} |->
        {[row |-> row, o |-> SberRow(h, row)] : row \in SberRows(h)}] @@ <<>>

(***************************************************************************)
(* State.                                                                  *)
(***************************************************************************)
VARIABLES
    categories,   \* table of ExpenseCategory, the id of a row is its position
    expenses,     \* table of Expense, in the order of creation
    rowsRead,     \* number of rows read so far, by all calls
    pc,           \* per process: where its call stands
    call,         \* per process: the call it runs (kind, user, headers), the source
                  \* type it was dispatched for and the message the view reports
    cur,          \* per process: the row in hand and the locals of the loop body,
                  \* once the row has passed the filters
    cat,          \* per process: the category get_or_create returned, and how
    obj,          \* per process: the pk of the Expense a form has saved, 0 before
    created,      \* per process: the local created
    total,        \* per process: the local total
    result,       \* per process: the value returned by the call
    outcome,      \* per process: what became of the last row read
    made,         \* per process: the ids of the rows its call has inserted
    arg,          \* the argument of a call of _parse_sber_date or _normalize_amount
                  \* made on its own, outside an import
    ret           \* what that call returned

vars ==
    <<categories, expenses, rowsRead, pc, call, cur, cat, obj, created, total,
      result, outcome, made, arg, ret>>

\* the variables of a call of a helper on its own
pure == <<arg, ret>>

NoResult == [returned |-> FALSE, created |-> 0, total |-> DecZero]

NoCall ==
    [kind |-> "none", user |-> "", headers |-> <<>>, source |-> "",
     message |-> NoResult]

NothingMade == [expenses |-> {}, categories |-> {}]

Returned(n, t) == [returned |-> TRUE, created |-> n, total |-> t]

NoRow == [row |-> <<>>, f |-> NoFields]

NoCategory == [id |-> 0, how |-> "none"]

NoArg == [fn |-> "none", raw |-> None]

NoRet == [done |-> FALSE, date |-> DateFail, amount |-> [ok |-> FALSE, val |-> DecZero]]

\* empty tables, no request under way
Idle ==
    /\ categories = <<>>
    /\ expenses = <<>>
    /\ rowsRead = 0
    /\ pc = [p \in Procs |-> "idle"]
    /\ call = [p \in Procs |-> NoCall]
    /\ cur = [p \in Procs |-> NoRow]
    /\ cat = [p \in Procs |-> NoCategory]
    /\ obj = [p \in Procs |-> 0]
    /\ created = [p \in Procs |-> 0]
    /\ total = [p \in Procs |-> DecZero]
    /\ result = [p \in Procs |-> NoResult]
    /\ outcome = [p \in Procs |-> "none"]
    /\ made = [p \in Procs |-> NothingMade]

Init == Idle /\ arg = NoArg /\ ret = NoRet

Bank(p) == IF call[p].kind = "tbank" THEN "T-Bank" ELSE "Sberbank"

(***************************************************************************)
(* Operations.                                                             *)
(***************************************************************************)
\* the loop body, were it to catch the exception and go on to the next row
PropagateAsSkip(p, why) ==
    /\ pc' = [pc EXCEPT ![p] = "loop"]
    /\ outcome' = [outcome EXCEPT ![p] = why]

\* neither parser catches what _normalize_amount, split()[0], get_or_create
\* or create raise: the exception leaves the function, nothing is returned
Propagate(p, why) ==
    /\ pc' = [pc EXCEPT ![p] = "failed"]
    /\ outcome' = [outcome EXCEPT ![p] = why]

\* a call of kind for user u; source is the source type of the import form
\* when StatementImportView makes the call, "" otherwise
BeginFor(p, source, kind, u, headers) ==
    /\ pc[p] = "idle"
    /\ call' = [call EXCEPT ![p] =
                   [kind |-> kind, user |-> u, headers |-> headers,
                    source |-> source, message |-> NoResult]]
    /\ created' = [created EXCEPT ![p] = 0]
    /\ total' = [total EXCEPT ![p] = DecZero]

Begin(p, kind, u, headers) == BeginFor(p, "", kind, u, headers)

\* import_tbank_csv, up to the loop
StartTbankFor(p, u, source) ==
    /\ BeginFor(p, source, "tbank", u, <<>>)
    /\ pc' = [pc EXCEPT ![p] = "loop"]
    /\ UNCHANGED <<categories, expenses, rowsRead, cur, cat, obj, result, outcome, made>>
    /\ UNCHANGED pure

StartTbank(p, u) == StartTbankFor(p, u, "")

\* import_sber_xlsx, up to the loop
ShortFirstRows == {<<Str("Data"), Str("Kategoriq"), Str("Summa")>>}

\* the header row of each worksheet and what the check of the mandatory
\* columns says of it
HeaderOf ==
    [first_row \in FirstRows \cup ShortFirstRows |->
        [headers |-> Headers(first_row),
         rejected |-> HeaderRejected(Headers(first_row))]] @@ <<>>

StartSber(p, u, first_row) ==
    /\ Begin(p, "sber", u, HeaderOf[first_row].headers)
    /\ IF HeaderOf[first_row].rejected
       THEN /\ pc' = [pc EXCEPT ![p] = "done"]
            /\ result' = [result EXCEPT ![p] = Returned(0, DecZero)]
       ELSE /\ pc' = [pc EXCEPT ![p] = "loop"]
            /\ UNCHANGED result
    /\ UNCHANGED <<categories, expenses, rowsRead, cur, cat, obj, outcome, made>>
    /\ UNCHANGED pure

\* the loop body up to get_or_create, for the next row of the file
ReadRow(p, line) ==
    /\ pc[p] = "loop"
    /\ rowsRead < MaxRows
    /\ rowsRead' = rowsRead + 1
    /\ CASE line.o.do = "skip" ->
              /\ outcome' = [outcome EXCEPT ![p] = line.o.why]
              /\ UNCHANGED <<pc, cur>>
         [] line.o.do = "raise" ->
              /\ Propagate(p, line.o.why)
              /\ UNCHANGED cur
         [] line.o.do = "persist" ->
              /\ outcome' = [outcome EXCEPT ![p] = line.o.why]
              /\ pc' = [pc EXCEPT ![p] = "goc_get"]
              /\ cur' = [cur EXCEPT ![p] = [row |-> line.row, f |-> line.o.f]]
    /\ UNCHANGED <<categories, expenses, call, cat, obj, created, total, result, made>>
    /\ UNCHANGED pure

ReadTbankRow(p, file) ==
    /\ call[p].kind = "tbank"
    /\ \E line \in file : ReadRow(p, line)

ReadSberRow(p, files) ==
    /\ call[p].kind = "sber"
    /\ pc[p] = "loop"
    /\ \E line \in files[call[p].headers] : ReadRow(p, line)

OwnerIsFirstUser(p) == "alice"

\* user=user of get_or_create and of Expense.objects.create: the user the
\* parser was called for
Owner(p) == call[p].user

\* get_or_create, first half: the lookup
LookupCategory(p) ==
    /\ pc[p] = "goc_get"
    /\ LET name == cur[p].f.category_name
       IN  IF CategoryIds(categories, call[p].user, name) # {}
           THEN /\ cat' = [cat EXCEPT ![p] =
                        [id |-> GetCategory(categories, call[p].user, name),
                         how |-> "found"]]
                /\ pc' = [pc EXCEPT ![p] = "create"]
           ELSE /\ pc' = [pc EXCEPT ![p] = "goc_create"]
                /\ UNCHANGED cat
    /\ UNCHANGED <<categories, expenses, rowsRead, call, cur, obj, created, total,
                   result, outcome, made>>
    /\ UNCHANGED pure

\* get_or_create, second half: the insert, or the lookup again when the
\* table refuses the insert
InsertCategory(p) ==
    /\ pc[p] = "goc_create"
    /\ LET name == cur[p].f.category_name
       IN  IF UniqueTogether(categories, call[p].user, name)
           THEN /\ categories' = Append(categories, [user |-> Owner(p), name |-> name])
                /\ cat' = [cat EXCEPT ![p] =
                        [id |-> Len(categories) + 1, how |-> "created"]]
                /\ made' = [made EXCEPT ![p].categories = @ \cup {Len(categories) + 1}]
           ELSE /\ cat' = [cat EXCEPT ![p] =
                        [id |-> GetCategory(categories, call[p].user, name),
                         how |-> "found after IntegrityError"]]
                /\ UNCHANGED <<categories, made>>
    /\ pc' = [pc EXCEPT ![p] = "create"]
    /\ UNCHANGED <<expenses, rowsRead, call, cur, obj, created, total, result, outcome>>
    /\ UNCHANGED pure

\* Expense.objects.create(...); created += 1; total += amount
CreateExpense(p) ==
    /\ pc[p] = "create"
    /\ call[p].kind \in {"tbank", "sber"}
    /\ LET f == cur[p].f
       IN  /\ expenses' = Append(expenses,
                   [user |-> Owner(p), category |-> cat[p].id,
                    amount |-> StoredAmount(f.amount), date |-> f.date,
                    description |-> f.description, bank |-> Bank(p),
                    currency |-> f.currency])
           /\ total' = [total EXCEPT ![p] = DecAdd(total[p], f.amount)]
    /\ made' = [made EXCEPT ![p].expenses = @ \cup {Len(expenses) + 1}]
    /\ created' = [created EXCEPT ![p] = created[p] + 1]
    /\ pc' = [pc EXCEPT ![p] = "loop"]
    /\ cur' = [cur EXCEPT ![p] = NoRow]
    /\ cat' = [cat EXCEPT ![p] = NoCategory]
    /\ UNCHANGED <<categories, rowsRead, call, obj, result, outcome>>
    /\ UNCHANGED pure

\* ExpenseCreateView.post with a valid form: form.save(commit=False) starts
\* with the category of the hidden field and resolves category_name, if any
SubmitForm(p, u, form) ==
    /\ Begin(p, "manual", u, <<>>)
    /\ form.category \in 0..Len(categories)
    /\ rowsRead < MaxRows
    /\ rowsRead' = rowsRead + 1
    /\ cur' = [cur EXCEPT ![p] =
                  [row |-> form,
                   f |-> [amount |-> form.amount, currency |-> form.currency,
                          date |-> form.date,
                          category_name |-> Strip(form.category_name),
                          description |-> form.description]]]
    /\ cat' = [cat EXCEPT ![p] = [id |-> form.category, how |-> "posted"]]
    /\ pc' = [pc EXCEPT ![p] =
                 IF Strip(form.category_name) # "" THEN "goc_get" ELSE "create"]
    /\ UNCHANGED <<categories, expenses, obj, result, outcome, made>>
    /\ UNCHANGED pure

\* the Expense a valid form has built, with the defaults of
\* ExpenseCreateView.form_valid: bank "Manual", currency "RUB"
FormExpense(u, form, f, category) ==
    [user |-> u, category |-> category,
     amount |-> StoredAmount(f.amount), date |-> f.date,
     description |-> f.description,
     bank |-> IF form.bank # "" THEN form.bank ELSE "Manual",
     currency |-> IF f.currency # "" THEN f.currency ELSE "RUB"]

\* expense.save() of ExpenseCreateView.form_valid, which inserts the row, and
\* then the form.save() of ModelFormMixin.form_valid, which resolves
\* category_name once more and saves the same instance, an update of the row
SaveForm(p) ==
    /\ pc[p] = "create"
    /\ call[p].kind = "manual"
    /\ LET e == FormExpense(call[p].user, cur[p].row, cur[p].f, cat[p].id)
       IN  IF obj[p] = 0
           THEN /\ expenses' = Append(expenses, e)
                /\ obj' = [obj EXCEPT ![p] = Len(expenses) + 1]
                /\ made' = [made EXCEPT ![p].expenses = @ \cup {Len(expenses) + 1}]
                /\ pc' = [pc EXCEPT ![p] =
                             IF cur[p].f.category_name # "" THEN "goc_get" ELSE "create"]
                /\ UNCHANGED <<cur, cat, result>>
           ELSE /\ expenses' = [expenses EXCEPT ![obj[p]] = e]
                /\ pc' = [pc EXCEPT ![p] = "done"]
                /\ result' = [result EXCEPT ![p] = Returned(1, cur[p].f.amount)]
                /\ cur' = [cur EXCEPT ![p] = NoRow]
                /\ cat' = [cat EXCEPT ![p] = NoCategory]
                /\ UNCHANGED <<obj, made>>
    /\ UNCHANGED <<categories, rowsRead, call, created, total, outcome>>
    /\ UNCHANGED pure

\* the database refuses a query of get_or_create or of create
StorageFails(p) ==
    /\ pc[p] \in {"goc_get", "goc_create", "create"}
    /\ Propagate(p, "DatabaseError")
    /\ UNCHANGED <<categories, expenses, rowsRead, call, cur, cat, obj, created, total,
                   result, made>>
    /\ UNCHANGED pure

ReturnCountingRows(p) ==
    /\ pc[p] = "loop"
    /\ pc' = [pc EXCEPT ![p] = "done"]
    /\ result' = [result EXCEPT ![p] = Returned(rowsRead, total[p])]
    /\ UNCHANGED <<categories, expenses, rowsRead, call, cur, cat, obj, created, total,
                   outcome, made>>
    /\ UNCHANGED pure

\* the file has no more rows: return created, total
Return(p) ==
    /\ pc[p] = "loop"
    /\ pc' = [pc EXCEPT ![p] = "done"]
    /\ result' = [result EXCEPT ![p] = Returned(created[p], total[p])]
    /\ UNCHANGED <<categories, expenses, rowsRead, call, cur, cat, obj, created, total,
                   outcome, made>>
    /\ UNCHANGED pure

\* SOURCE_CHOICES of StatementImportForm
Sources == {"tbank_csv", "sber_pdf"}

\* StatementImportView.form_valid, up to the loop of the parser it calls.
\* import_sber_pdf is imported from services/importers.py, which defines
\* import_tbank_csv and import_sber_xlsx only: the name cannot be bound.
Dispatch(p, u, source) ==
    IF source = "tbank_csv"
    THEN StartTbankFor(p, u, source)
    ELSE /\ BeginFor(p, source, "import_sber_pdf", u, <<>>)
         /\ Propagate(p, "ImportError")
         /\ UNCHANGED <<categories, expenses, rowsRead, cur, cat, obj, result, made>>
         /\ UNCHANGED pure

\* messages.success(f"Imported {created} expenses, total amount: {total}.")
Report(p) ==
    /\ pc[p] = "done"
    /\ call[p].source # ""
    /\ call' = [call EXCEPT ![p].message = result[p]]
    /\ pc' = [pc EXCEPT ![p] = "reported"]
    /\ UNCHANGED <<categories, expenses, rowsRead, cur, cat, obj, created, total,
                   result, outcome, made>>
    /\ UNCHANGED pure

\* the request that made the call ends
Finish(p) ==
    /\ pc[p] \in {"done", "failed", "reported"}
    /\ pc[p] = "done" => call[p].source = ""
    /\ pc' = [pc EXCEPT ![p] = "idle"]
    /\ call' = [call EXCEPT ![p] = NoCall]
    /\ cur' = [cur EXCEPT ![p] = NoRow]
    /\ cat' = [cat EXCEPT ![p] = NoCategory]
    /\ obj' = [obj EXCEPT ![p] = 0]
    /\ created' = [created EXCEPT ![p] = 0]
    /\ total' = [total EXCEPT ![p] = DecZero]
    /\ result' = [result EXCEPT ![p] = NoResult]
    /\ outcome' = [outcome EXCEPT ![p] = "none"]
    /\ made' = [made EXCEPT ![p] = NothingMade]
    /\ UNCHANGED <<categories, expenses, rowsRead>>
    /\ UNCHANGED pure

\* the imports of one user, one request at a time
Next ==
    \E p \in {1} :
        \/ StartTbank(p, "alice")
        \/ \E first_row \in FirstRows : StartSber(p, "alice", first_row)
        \/ ReadTbankRow(p, TbankFile)
        \/ ReadSberRow(p, SberFile)
        \/ LookupCategory(p)
        \/ InsertCategory(p)
        \/ CreateExpense(p)
        \/ StorageFails(p)
        \/ Return(p)
        \/ Finish(p)

Spec == Init /\ [][Next]_vars

(***************************************************************************)
(* Requests of two users that overlap: imports of short files and forms of *)
(* ExpenseCreateView.                                                      *)
(***************************************************************************)
ShortTbankFile ==
    {line \in TbankFile :
        /\ line.row.status = Str("OK")
        /\ line.row.amount_op = Str("-150,50")
        /\ line.row.date = Str("05.12.2025 12:00")
        /\ line.row.category \in {Str("Eda"), None}}

ShortSberFile ==
    [h \in {Headers(first_row) : first_row \in ShortFirstRows} |->
        {[row |-> row, o |-> SberRow(h, row)] :
            row \in {<<Str("01 dek. 2025, 10:00"), Str("Eda"), Str("-1_234,56")>>,
                     <<Str("01 dek. 2025, 10:00"), Str("Perevod na kartu"),
                       Str("-1_234,56")>>}}] @@ <<>>

Forms ==
    {[date |-> MkDate(2025, 12, 5), description |-> "Obed", category |-> 0,
      amount |-> Dec(1000, 2), bank |-> "", currency |-> "", category_name |-> n] :
        n \in {" Eda", ""}}

NextConc ==
    \E p \in Procs :
        \/ \E u \in Users : StartTbank(p, u)
        \/ \E u \in Users, first_row \in ShortFirstRows : StartSber(p, u, first_row)
        \/ \E u \in Users, form \in Forms : SubmitForm(p, u, form)
        \/ ReadTbankRow(p, ShortTbankFile)
        \/ ReadSberRow(p, ShortSberFile)
        \/ LookupCategory(p)
        \/ InsertCategory(p)
        \/ CreateExpense(p)
        \/ SaveForm(p)
        \/ StorageFails(p)
        \/ Return(p)
        \/ Finish(p)

SpecConc == Init /\ [][NextConc]_vars

(***************************************************************************)
(* The views of the application, one request at a time: the import form of *)
(* StatementImportView.                                                    *)
(***************************************************************************)
\* a row of a T-Bank file whose category is blank and whose description is
\* empty
BlankTbankRow ==
    [status |-> Str("OK"), amount_op |-> Str(""), amount_pay |-> Str("-20"),
     currency |-> None, date |-> Str("05.12.2025 12:00"), category |-> Str(" "),
     description |-> Str("")]

\* the file that the import form uploads
UploadedTbankFile ==
    ShortTbankFile \cup {[row |-> BlankTbankRow, o |-> TbankRow(BlankTbankRow)]}

NextViews ==
    \E p \in {1} :
        \/ \E u \in Users, source \in Sources : Dispatch(p, u, source)
        \/ ReadTbankRow(p, UploadedTbankFile)
        \/ LookupCategory(p)
        \/ InsertCategory(p)
        \/ CreateExpense(p)
        \/ StorageFails(p)
        \/ Return(p)
        \/ Report(p)
        \/ Finish(p)

SpecViews == Init /\ [][NextViews]_vars

(***************************************************************************)
(* The expense pages: ExpenseCreateView, ExpenseUpdateView and             *)
(* ExpenseDeleteView, next to the import of a T-Bank file.  The primary    *)
(* key of an Expense is its position in the table; a deleted row leaves    *)
(* the row Deleted at its position.                                        *)
(***************************************************************************)
Deleted ==
    [user |-> "", category |-> 0, amount |-> DecZero, date |-> NoDate,
     description |-> "", bank |-> "", currency |-> ""]

\* UpdateView.get_object: model = Expense and no get_queryset, so the object
\* is looked up among the expenses of all users
UpdateQueryset(u) == {i \in 1..Len(expenses) : expenses[i] # Deleted}

\* ExpenseDeleteView.get_queryset: Expense.objects.filter(user=request.user)
DeleteQueryset(u) == {i \in 1..Len(expenses) : expenses[i].user = u}

\* ExpenseUpdateView.post by user u for the expense pk with a valid form:
\* form.save() starts with the category of the hidden field and resolves
\* category_name, if any, for the user of the request
SubmitEdit(p, u, pk, form) ==
    /\ Begin(p, "edit", u, <<>>)
    /\ rowsRead < MaxRows
    /\ rowsRead' = rowsRead + 1
    /\ pk \in UpdateQueryset(u)
    /\ form.category \in 0..Len(categories)
    /\ obj' = [obj EXCEPT ![p] = pk]
    /\ cur' = [cur EXCEPT ![p] =
                  [row |-> form,
                   f |-> [amount |-> form.amount, currency |-> form.currency,
                          date |-> form.date,
                          category_name |-> Strip(form.category_name),
                          description |-> form.description]]]
    /\ cat' = [cat EXCEPT ![p] = [id |-> form.category, how |-> "posted"]]
    /\ pc' = [pc EXCEPT ![p] =
                 IF Strip(form.category_name) # "" THEN "goc_get" ELSE "create"]
    /\ UNCHANGED <<categories, expenses, result, outcome, made>>
    /\ UNCHANGED pure

\* expense.save() of ExpenseForm.save for the edited instance: the fields of
\* the form and the category are written, the user of the row is not a field
\* of the form and stays
SaveEdit(p) ==
    /\ pc[p] = "create"
    /\ call[p].kind = "edit"
    /\ expenses' = [expenses EXCEPT ![obj[p]] =
                       [user |-> @.user, category |-> cat[p].id,
                        amount |-> StoredAmount(cur[p].f.amount),
                        date |-> cur[p].f.date,
                        description |-> cur[p].f.description,
                        bank |-> cur[p].row.bank,
                        currency |-> cur[p].f.currency]]
    /\ pc' = [pc EXCEPT ![p] = "done"]
    /\ cur' = [cur EXCEPT ![p] = NoRow]
    /\ cat' = [cat EXCEPT ![p] = NoCategory]
    /\ UNCHANGED <<categories, rowsRead, call, obj, created, total, result, outcome,
                   made>>
    /\ UNCHANGED pure

\* ExpenseDeleteView.post by user u for the expense pk: the row is deleted
\* when get_queryset holds it, the answer is 404 otherwise
DeleteExpense(p, u, pk) ==
    /\ Begin(p, "delete", u, <<>>)
    /\ rowsRead < MaxRows
    /\ rowsRead' = rowsRead + 1
    /\ pk \in 1..Len(expenses)
    /\ IF pk \in DeleteQueryset(u)
       THEN /\ expenses' = [expenses EXCEPT ![pk] = Deleted]
            /\ outcome' = [outcome EXCEPT ![p] = "deleted"]
       ELSE /\ outcome' = [outcome EXCEPT ![p] = "Http404"]
            /\ UNCHANGED expenses
    /\ obj' = [obj EXCEPT ![p] = pk]
    /\ pc' = [pc EXCEPT ![p] = "done"]
    /\ UNCHANGED <<categories, cur, cat, result, made>>
    /\ UNCHANGED pure

\* posted forms: the hidden category field empty or the key of a category,
\* the category name filled in or not
SiteForms ==
    {[date |-> MkDate(2025, 12, 5), description |-> "Obed", category |-> c,
      amount |-> Dec(1000, 2), bank |-> "", currency |-> "", category_name |-> n] :
        c \in {0, 1}, n \in {"Eda", ""}}

\* the requests of the two users, one at a time
NextSite ==
    \E p \in {1} :
        \/ \E u \in Users : StartTbank(p, u)
        \/ \E u \in Users, form \in SiteForms : SubmitForm(p, u, form)
        \/ \E u \in Users, pk \in 1..MaxRows, form \in SiteForms : SubmitEdit(p, u, pk, form)
        \/ \E u \in Users, pk \in 1..MaxRows : DeleteExpense(p, u, pk)
        \/ ReadTbankRow(p, ShortTbankFile)
        \/ LookupCategory(p)
        \/ InsertCategory(p)
        \/ CreateExpense(p)
        \/ SaveForm(p)
        \/ SaveEdit(p)
        \/ Return(p)
        \/ Finish(p)

SpecSite == Init /\ [][NextSite]_vars

(***************************************************************************)
(* The two helpers called on their own.  The argument is drawn in the      *)
(* initial state from the texts and values below; one step applies the     *)
(* helper to it.                                                           *)
(***************************************************************************)
Two(n) == Char(DigitChars, ((n \div 10) % 10) + 1) \o Char(DigitChars, (n % 10) + 1)

Four(n) == Two(n \div 100) \o Two(n % 100)

\* a date written "DD.MM.YYYY"
Numeric(y, mo, d) == Two(d) \o "." \o Two(mo) \o "." \o Four(y)

\* a date written "DD mon. YYYY"
Abbreviated(y, mon, d) == Two(d) \o " " \o mon \o ". " \o Four(y)

DateDays == {1, 29, 30, 31}

DateMonths == {2, 4, 11, 12, 13}

DateYears == {2024, 2025}

\* the abbreviation written in the text and the month it stands for (0: none)
DateAbbreviations ==
    {<<"fev", 2>>, <<"apr", 4>>, <<"Noq", 11>>, <<"dek", 12>>, <<"xyz", 0>>}

\* what may follow the date in a statement cell
DateTails == {"", ", 10:00"}

DateObjects ==
    {DateObj(y, mo, d) : y \in DateYears, mo \in {2, 11}, d \in {1, 29}}
        \ {DateObj(2025, 2, 29)}

NumericDateTexts ==
    {Str(Numeric(y, mo, d) \o tail) :
        y \in DateYears, mo \in DateMonths, d \in DateDays, tail \in DateTails}

AbbreviatedDateTexts ==
    {Str(Abbreviated(y, a[1], d) \o tail) :
        y \in DateYears, a \in DateAbbreviations, d \in DateDays, tail \in DateTails}

\* texts and values that are not a date in any of the supported forms
NotDates ==
    {None, Str(""), Str("abc"), Str("2025-12-01"), Str("01.12.2025 10:00"),
     Str("01/12/2025"), Str("31 dek"), Str("dek 2025"), Str("01.12.25"),
     Str("00.12.2025"), Num("45992")}

DateArgs == DateObjects \cup NumericDateTexts \cup AbbreviatedDateTexts \cup NotDates

\* sign as written
AmountSigns == {"", "+", "-", "~"}

\* integer part as written, with its value
AmountIntegers ==
    {<<"0", 0>>, <<"99", 99>>, <<"150", 150>>, <<"1 234", 1234>>,
     <<"1_234", 1234>>, <<"12 345", 12345>>, <<"1_000 000", 1000000>>}

\* fractional part as written with its separator, its digits and their value
AmountFractions ==
    {<<"", 0, 0>>, <<",56", 2, 56>>, <<",50", 2, 50>>, <<".5", 1, 5>>,
     <<",004", 3, 4>>, <<".125", 3, 125>>}

AmountArgs ==
    {Str(sg \o ip[1] \o fp[1]) :
        sg \in AmountSigns, ip \in AmountIntegers, fp \in AmountFractions}

\* what _parse_sber_date returns for each of the date arguments
ParseSberDateOf == [raw \in DateArgs |-> _parse_sber_date(raw)] @@ <<>>

InitPure ==
    /\ Idle
    /\ arg \in ([fn : {"_parse_sber_date"}, raw : DateArgs]
                 \cup [fn : {"_normalize_amount"}, raw : AmountArgs])
    /\ ret = NoRet

\* a call of the helper; returns is what it returns for each argument
ParseSberDate(returns) ==
    /\ arg.fn = "_parse_sber_date"
    /\ ~ret.done
    /\ ret' = [done |-> TRUE, date |-> returns[arg.raw], amount |-> NoRet.amount]
    /\ UNCHANGED <<categories, expenses, rowsRead, pc, call, cur, cat, obj, created,
                   total, result, outcome, made, arg>>

NormalizeAmount ==
    /\ arg.fn = "_normalize_amount"
    /\ ~ret.done
    /\ ret' = [done |-> TRUE, date |-> NoRet.date, amount |-> _normalize_amount(arg.raw)]
    /\ UNCHANGED <<categories, expenses, rowsRead, pc, call, cur, cat, obj, created,
                   total, result, outcome, made, arg>>

NextPure == ParseSberDate(ParseSberDateOf) \/ NormalizeAmount

SpecPure == InitPure /\ [][NextPure]_vars

(***************************************************************************)
(* Properties.                                                             *)
(***************************************************************************)
Imported(e) == e.bank \in {"T-Bank", "Sberbank"}

InBody(p) == pc[p] \in {"goc_get", "goc_create", "create"}

\* the step of process p that inserts an Expense
Persists(p) == pc[p] = "create" /\ pc'[p] = "loop" /\ Len(expenses') = Len(expenses) + 1

RECURSIVE SumAmounts(_)
SumAmounts(ids) ==
    IF ids = {} THEN DecZero
    ELSE LET i == CHOOSE j \in ids : TRUE
         IN  DecAdd(expenses[i].amount, SumAmounts(ids \ {i}))

\* a label that, lower-cased, contains "perevod", "popoln" or "zacislen"
MeansTransfer(label) ==
    \/ Contains(Lower(label), "perevod")
    \/ Contains(Lower(label), "popoln")
    \/ Contains(Lower(label), "zacislen")

C2_OneCategoryPerUserAndName ==
    /\ \A i, j \in 1..Len(categories) :
          (categories[i].user = categories[j].user
              /\ categories[i].name = categories[j].name) => i = j
    /\ \A p \in Procs :
          (pc[p] = "create" /\ cat[p].how # "posted") =>
              /\ cat[p].id \in 1..Len(categories)
              /\ categories[cat[p].id] =
                     [user |-> call[p].user, name |-> cur[p].f.category_name]
              /\ cat[p].how = "created" => cat[p].id \in made[p].categories

C2_Witness ==
    \E p, q \in Procs :
        /\ p # q /\ call[p].user = call[q].user
        /\ call[p].kind = "manual" /\ call[q].kind \in {"tbank", "sber"}
        /\ pc[p] = "create" /\ pc[q] = "create"
        /\ cat[p].how = "found after IntegrityError" /\ cat[q].how = "created"
        /\ cat[p].id = cat[q].id

C5_BadAmountNeverAborts ==
    \A p \in Procs : ~(pc[p] = "failed" /\ outcome[p] = "InvalidOperation")

\* C6: a failure of the storage while a category or an expense is persisted
\* ends the import at that row: the call fails, returns no result, and reads
\* and persists nothing more.
C6_StorageFailureIsFatal ==
    [][\A p \in Procs :
          /\ outcome'[p] = "DatabaseError" => (pc'[p] = "failed" /\ ~result'[p].returned)
          /\ (pc[p] = "failed" /\ call'[p] = call[p]) =>
                 /\ pc'[p] = "failed"
                 /\ made'[p] = made[p] /\ created'[p] = created[p]
                 /\ outcome'[p] = outcome[p]]_vars

C6_Witness ==
    \E p \in Procs :
        /\ pc[p] = "failed" /\ outcome[p] = "DatabaseError"
        /\ made[p].expenses # {}
        /\ rowsRead = MaxRows

\* the header rows in which no name contains "data" or no name contains "summa"
HeadersWithoutDateOrAmount ==
    {h \in HeaderRows : find_idx(h, {"data"}) = 0 \/ find_idx(h, {"summa"}) = 0}

\* C7: import_sber_xlsx on a header row that binds no date column or no amount
\* column returns (0, 0) and persists no Expense and no ExpenseCategory.
C7_SberWithoutDateOrAmountReturnsZero ==
    \A p \in Procs :
        (call[p].kind = "sber" /\ call[p].headers \in HeadersWithoutDateOrAmount)
        => /\ pc[p] = "done"
           /\ result[p] = Returned(0, DecZero)
           /\ made[p] = NothingMade

C7_Witness ==
    \E p \in Procs :
        /\ call[p].kind = "sber" /\ pc[p] = "done"
        /\ find_idx(call[p].headers, {"data"}) > 0
        /\ find_idx(call[p].headers, {"summa"}) = 0
        /\ result[p] = Returned(0, DecZero)

\* the category labels of the rows of the files, and those of them that do
\* not mean a transfer
Labels ==
    {line.o.f.category_name : line \in {l \in TbankFile : l.o.do = "persist"}}
    \cup UNION {{line.o.f.category_name :
                    line \in {l \in SberFile[h] : l.o.do = "persist"}} :
                h \in DOMAIN SberFile}

OrdinaryLabels == {label \in Labels : ~MeansTransfer(label)}

\* C8: import_sber_xlsx never persists a row whose resolved category text means
\* a transfer, a top-up or a crediting, creates no category for it, and counts
\* only the rows it persists.
C8_SberExcludedRowNeverPersisted ==
    /\ \A i \in 1..Len(expenses) :
          expenses[i].bank = "Sberbank"
              => categories[expenses[i].category].name \in OrdinaryLabels
    /\ \A p \in Procs :
          call[p].kind = "sber" =>
              /\ \A c \in made[p].categories : categories[c].name \in OrdinaryLabels
              /\ InBody(p) => cur[p].f.category_name \in OrdinaryLabels
              /\ created[p] = Cardinality(made[p].expenses)

C8_Witness ==
    \E p \in Procs :
        /\ call[p].kind = "sber" /\ outcome[p] = "excluded"
        /\ made[p].expenses # {}

TbankStoresQuantizedAbsolute ==
    [][\A p \in Procs :
          (call[p].kind = "tbank" /\ Persists(p)) =>
              LET row == cur[p].row
                  amount == _normalize_amount(Str(TbankAmountRaw(row)))
                  stored == expenses'[Len(expenses')].amount
              IN  /\ row.status = Str("OK")
                  /\ amount.ok /\ DecIsNeg(amount.val)
                  /\ DecEq(stored, StoredAmount(DecAbs(amount.val)))]_vars

SberFallbackStoresQuantized ==
    [][\A p \in Procs :
          (call[p].kind = "sber" /\ Persists(p)) =>
              LET h == call[p].headers
                  row == cur[p].row
                  e == expenses'[Len(expenses')]
                  original == _normalize_amount(row[idx_amount(h)]).val
                  currency == TextOr(row, idx_currency(h), "RUB")
                  filled == idx_amount_rub(h) > 0 /\ row[idx_amount_rub(h)].k # "none"
                  converted == IF filled THEN _normalize_amount(row[idx_amount_rub(h)]).val
                               ELSE DecZero
              IN  IF currency # "RUB" /\ filled /\ ~DecIsZero(converted)
                  THEN /\ DecEq(e.amount, StoredAmount(DecAbs(converted)))
                       /\ e.currency = "RUB"
                  ELSE /\ DecEq(e.amount, StoredAmount(DecAbs(original)))
                       /\ e.currency = currency]_vars

\* C11: for each source type of the import form, the call StatementImportView
\* makes is the parser of that type (import_tbank_csv for "tbank_csv",
\* import_sber_xlsx for "sber_pdf", the statement of Sberbank), for the
\* requesting user, and the message reports the parser's result unchanged.
C11_DispatchInvokesMatchingParser ==
    \A p \in Procs :
        call[p].source # "" =>
            /\ call[p].source = "tbank_csv" => call[p].kind = "tbank"
            /\ call[p].source = "sber_pdf" => call[p].kind = "sber"
            /\ pc[p] = "reported" =>
                  /\ call[p].message = result[p]
                  /\ result[p] = Returned(created[p], total[p])

\* C12: every Expense persisted by a parser has a description that is not
\* empty and a category whose label is not empty: a blank or absent category
\* is "Uncategorized", and an empty description is the category label.
C12_ImportedDescriptionIsNotEmpty ==
    /\ \A i \in 1..Len(expenses) :
          Imported(expenses[i]) =>
              /\ expenses[i].description # ""
              /\ categories[expenses[i].category].name # ""
    /\ \A p \in Procs :
          (call[p].kind \in {"tbank", "sber"} /\ InBody(p)) =>
              /\ cur[p].f.category_name # ""
              /\ cur[p].f.description # ""

\* the calendar: the number of days of each month of a common year
MonthLengths == <<31, 28, 31, 30, 31, 30, 31, 31, 30, 31, 30, 31>>

IsCalendarDate(y, mo, d) ==
    /\ mo \in 1..12
    /\ d >= 1
    /\ d <= MonthLengths[mo] + (IF mo = 2 /\ y % 4 = 0 /\ (y % 100 # 0 \/ y % 400 = 0)
                                THEN 1 ELSE 0)

\* the result the date normalizer owes for the day, month and year written
DateOf(y, mo, d) ==
    IF IsCalendarDate(y, mo, d) THEN [ok |-> TRUE, dt |-> [y |-> y, mo |-> mo, d |-> d]]
    ELSE [ok |-> FALSE, dt |-> NoDate]

Parsed == ret.date

\* for each date that _parse_sber_date returned, what it returns for the
\* text "DD.MM.YYYY" of that date
ParsedAgain ==
    [r \in {ParseSberDateOf[raw] : raw \in DateArgs} |->
        IF r.ok THEN _parse_sber_date(Str(Numeric(r.dt.y, r.dt.mo, r.dt.d))) ELSE DateFail]
    @@ <<>>

ParsedDate(raw) == arg.fn = "_parse_sber_date" /\ arg.raw = raw /\ ret.done

\* C13: _parse_sber_date returns the calendar date of a date value; for a text
\* "DD.MM.YYYY" or "DD mon. YYYY" (alone or followed by ", time") it returns the
\* date written when that is a calendar date and None when it is not (day 31 of
\* a 30-day month, 29 February of a common year, month 13, an unknown
\* abbreviation); for a text in no supported form it returns None; and parsing
\* the "DD.MM.YYYY" rendering of a date it returned gives that date again.
C13_ParseSberDateNeverInventsADate ==
    /\ \A raw \in DateObjects : ParsedDate(raw) => Parsed = [ok |-> TRUE, dt |-> raw.dt]
    /\ \A y \in DateYears, mo \in DateMonths, d \in DateDays, tail \in DateTails :
          ParsedDate(Str(Numeric(y, mo, d) \o tail)) => Parsed = DateOf(y, mo, d)
    /\ \A y \in DateYears, a \in DateAbbreviations, d \in DateDays, tail \in DateTails :
          ParsedDate(Str(Abbreviated(y, a[1], d) \o tail)) => Parsed = DateOf(y, a[2], d)
    /\ \A raw \in NotDates : ParsedDate(raw) => ~Parsed.ok
    /\ (arg.fn = "_parse_sber_date" /\ ret.done /\ Parsed.ok) =>
          /\ IsCalendarDate(Parsed.dt.y, Parsed.dt.mo, Parsed.dt.d)
          /\ ParsedAgain[Parsed] = Parsed

\* day 31 of a 30-day month was given, in either form, and None came back; and
\* a valid date was given as text and came back
C13_Witness ==
    \/ ParsedDate(Str("31.11.2025")) /\ ~Parsed.ok
    \/ ParsedDate(Str("31 apr. 2024, 10:00")) /\ ~Parsed.ok

Normalized(text) == arg.fn = "_normalize_amount" /\ arg.raw = Str(text) /\ ret.done

\* C14: for a text made of an optional sign ("+", "-" or the typographic
\* minus), digits grouped by ordinary or no-break spaces and at most one comma
\* or dot followed by digits, _normalize_amount returns exactly the decimal
\* written: same digits, same number of fractional digits, no rounding.
C14_NormalizeAmountIsExact ==
    \A sg \in AmountSigns, ip \in AmountIntegers, fp \in AmountFractions :
        Normalized(sg \o ip[1] \o fp[1]) =>
            /\ ret.amount.ok
            /\ ret.amount.val = Dec((IF sg \in {"-", "~"} THEN -1 ELSE 1)
                                * (ip[2] * Pow10(fp[2]) + fp[3]), fp[2])

C14_Witness ==
    \/ Normalized("1 234,56") /\ ret.amount.val = Dec(123456, 2)
    \/ Normalized("~1_234,004") /\ ret.amount.val = Dec(-1234004, 3)

\* a step of the import process p
ImportStep(p) ==
    /\ call[p].kind \in {"tbank", "sber"}
    /\ <<pc[p], cur[p], cat[p], created[p], total[p], result[p], made[p]>>
          # <<pc'[p], cur'[p], cat'[p], created'[p], total'[p], result'[p], made'[p]>>

\* table' is table with rows added at the end, each owned by u
OnlyAdds(table, after, u) ==
    /\ Len(after) >= Len(table)
    /\ SubSeq(after, 1, Len(table)) = table
    /\ \A i \in (Len(table) + 1)..Len(after) : after[i].user = u

\* C15: no step of import_tbank_csv or import_sber_xlsx changes or removes an
\* ExpenseCategory or Expense that is in the tables, whoever owns it, and every
\* row such a step adds is owned by the user the import runs for.
C15_ImportOnlyAddsOwnRecords ==
    [][\A p \in Procs :
          ImportStep(p) =>
              /\ OnlyAdds(categories, categories', call[p].user)
              /\ OnlyAdds(expenses, expenses', call[p].user)]_vars

\* bob's import has added an expense to tables that hold a record of alice
C15_Witness ==
    \E p \in Procs :
        /\ call[p].kind \in {"tbank", "sber"}
        /\ call[p].user = "bob"
        /\ made[p].expenses # {}
        /\ \E i \in 1..Len(expenses) : expenses[i].user = "alice"
        /\ \E i \in 1..Len(categories) : categories[i].user = "alice"

\* date fields of the T-Bank rows that are empty or not a date DD.MM.YYYY
BadTbankDates == {Str(""), Str("31.11.2025")}

\* C16: a T-Bank row whose date field is empty or is not a valid DD.MM.YYYY
\* date is skipped: it never reaches get_or_create or create, and it never ends
\* the import with the exception of taking the first word of an empty text.
C16_TbankBadDateIsSkipped ==
    \A p \in Procs :
        call[p].kind = "tbank" =>
            /\ InBody(p) => cur[p].row.date \notin BadTbankDates
            /\ ~(pc[p] = "failed" /\ outcome[p] = "IndexError")

\* p has a surviving row in its hands
InHand(p) == cur[p].f # NoFields

\* the Expense that the row in the hands of p becomes
RecordOf(p) ==
    [user |-> call[p].user, category |-> cat[p].id,
     amount |-> StoredAmount(cur[p].f.amount), date |-> cur[p].f.date,
     description |-> cur[p].f.description, bank |-> Bank(p),
     currency |-> cur[p].f.currency]

\* C17: an import takes the next row of the file only when it has finished
\* the row before it; every record it persists is the one of the surviving row
\* in its hands, is added after all the records persisted before, and is
\* counted once; and the created-count returned is the number of records the
\* call has persisted.
C17_RowsPersistedInSourceOrder ==
    /\ [][\A p \in Procs :
             call[p].kind \in {"tbank", "sber"} =>
                 /\ (InHand(p)' /\ cur'[p].f # cur[p].f) =>
                        /\ pc[p] = "loop" /\ ~InHand(p)
                        /\ rowsRead' = rowsRead + 1
                        /\ expenses' = expenses
                 /\ (ImportStep(p) /\ expenses' # expenses) =>
                        /\ InHand(p)
                        /\ expenses' = Append(expenses, RecordOf(p))
                        /\ ~InHand(p)'
                        /\ created'[p] = created[p] + 1
                 /\ created'[p] > created[p] => expenses' # expenses]_vars
    /\ [](\A p \in Procs :
             call[p].kind \in {"tbank", "sber"} =>
                 /\ created[p] = Cardinality(made[p].expenses)
                 /\ made[p].expenses \subseteq 1..Len(expenses)
                 /\ result[p].returned => result[p].created = Cardinality(made[p].expenses))

\* two rows were read, one of them was skipped and the other persisted, and the
\* import returned 1
C17_Witness ==
    \E p \in Procs :
        /\ call[p].kind \in {"tbank", "sber"}
        /\ result[p].returned
        /\ rowsRead = 2
        /\ result[p].created = 1
        /\ Cardinality(made[p].expenses) = 1

\* the name of the converted-amount column
IsAmountRub(name) == Contains(Lower(name), "summa v rub")

\* the name of the original-currency amount column
IsAmount(name) == Contains(Lower(name), "summa") /\ ~IsAmountRub(name)

\* the header rows that have an original-currency amount column and in which
\* the amount field is bound to another column, or to the column of the
\* converted amount
HeadersWithAmountMisbound ==
    {h \in HeaderRows :
        /\ \E i \in 1..Len(h) : IsAmount(h[i])
        /\ \/ ~IsAmount(h[idx_amount(h)])
           \/ idx_amount(h) = idx_amount_rub(h)}

\* C18: whenever the header row of a Sberbank sheet has an original-currency
\* amount column ("summa" without "summa v rub"), import_sber_xlsx binds the
\* amount field to such a column and the converted-amount field to another
\* one, whatever the order of the columns.
C18_SberAmountBoundToOriginalColumn ==
    \A p \in Procs : call[p].kind = "sber" => call[p].headers \notin HeadersWithAmountMisbound

====
